---- MODULE Spec2Model ----
(***************************************************************************)
(* Model of the takeit parameter store: key normalisation, document        *)
(* parsing and value resolution (src/src/collection/document.rs) and the   *)
(* collection loader and its lookups (src/src/collection/collection.rs).   *)
(*                                                                         *)
(* A Rust String is a sequence of one-character strings, so that trimming, *)
(* case folding, splitting, sorting and joining are computed as the code   *)
(* computes them.  A serde_json::Value is a record [t, s, m].              *)
(***************************************************************************)
EXTENDS Integers, Sequences, FiniteSets, TLC

(***************************************************************************)
(* Strings                                                                 *)
(***************************************************************************)

\* The characters used by the model, in byte order (String's Ord).
Ascii == <<" ", ",", "1", "2", "=", "A", "K", "V", "a", "k", "v">>

Code(c) == CHOOSE i \in DOMAIN Ascii : Ascii[i] = c

\* char::to_lowercase on the model's alphabet
LowerChar(c) ==
    CASE c = "A" -> "a"
      [] c = "K" -> "k"
      [] c = "V" -> "v"
      [] OTHER -> c

to_lowercase(s) == [i \in DOMAIN s |-> LowerChar(s[i])]

RECURSIVE trim_start(_)
trim_start(s) ==
    IF s /= <<>> /\ Head(s) = " " THEN trim_start(Tail(s)) ELSE s

RECURSIVE trim_end(_)
trim_end(s) ==
    IF s /= <<>> /\ s[Len(s)] = " " THEN trim_end(SubSeq(s, 1, Len(s) - 1)) ELSE s

trim(s) == trim_end(trim_start(s))

\* str::split(sep): the pieces between the separators, empty pieces kept
RECURSIVE split(_, _)
split(s, sep) ==
    IF \E i \in DOMAIN s : s[i] = sep
    THEN LET i == CHOOSE j \in DOMAIN s :
                      s[j] = sep /\ \A h \in 1..(j - 1) : s[h] /= sep
         IN  <<SubSeq(s, 1, i - 1)>> \o split(SubSeq(s, i + 1, Len(s)), sep)
    ELSE <<s>>

\* str::split_terminator(sep): as split, without a trailing empty piece
split_terminator(s, sep) ==
    LET parts == split(s, sep)
    IN  IF parts[Len(parts)] = <<>>
        THEN SubSeq(parts, 1, Len(parts) - 1)
        ELSE parts

\* str::split_once(sep): [found, key, value] around the first separator
split_once(s, sep) ==
    IF \E i \in DOMAIN s : s[i] = sep
    THEN LET i == CHOOSE j \in DOMAIN s :
                      s[j] = sep /\ \A h \in 1..(j - 1) : s[h] /= sep
         IN  [found |-> TRUE,
              key |-> SubSeq(s, 1, i - 1),
              value |-> SubSeq(s, i + 1, Len(s))]
    ELSE [found |-> FALSE, key |-> s, value |-> <<>>]

\* Ord for String: lexicographic on bytes
RECURSIVE StrLess(_, _)
StrLess(a, b) ==
    IF b = <<>> THEN FALSE
    ELSE IF a = <<>> THEN TRUE
    ELSE IF Head(a) /= Head(b) THEN Code(Head(a)) < Code(Head(b))
    ELSE StrLess(Tail(a), Tail(b))

RECURSIVE insert_sorted(_, _)
insert_sorted(x, sorted) ==
    IF sorted = <<>> THEN <<x>>
    ELSE IF StrLess(Head(sorted), x) \/ Head(sorted) = x
         THEN <<Head(sorted)>> \o insert_sorted(x, Tail(sorted))
         ELSE <<x>> \o sorted

\* Vec<String>::sort
RECURSIVE sort(_)
sort(v) == IF v = <<>> THEN <<>> ELSE insert_sorted(Head(v), sort(Tail(v)))

\* Vec::dedup: drops an element equal to its predecessor
RECURSIVE dedup(_)
dedup(v) ==
    IF Len(v) < 2 THEN v
    ELSE IF v[1] = v[2] THEN dedup(Tail(v))
         ELSE <<v[1]>> \o dedup(Tail(v))

\* [String]::join(sep)
RECURSIVE join(_, _)
join(v, sep) ==
    IF v = <<>> THEN <<>>
    ELSE IF Len(v) = 1 THEN v[1]
    ELSE v[1] \o <<sep>> \o join(Tail(v), sep)

(***************************************************************************)
(* Key normalisation                                                       *)
(***************************************************************************)

\* the closure `ensure` of normalize_override_key
ensure(s) ==
    LET kv == split_once(s, "=")
    IN  to_lowercase(IF kv.found
                     THEN trim(kv.key) \o <<"=">> \o trim(kv.value)
                     ELSE trim(s))

\* normalize_override_key without value.sort()
normalize_override_key_unsorted(value) ==
    LET pieces == split_terminator(value, ",")
    IN  join([i \in DOMAIN pieces |-> ensure(pieces[i])], ",")

normalize_override_key(value) ==
    LET pieces == split_terminator(value, ",")
    IN  join(sort([i \in DOMAIN pieces |-> ensure(pieces[i])]), ",")

\* The entries of a HashMap<String, String> in some iteration order.
RECURSIVE iter(_)
iter(map) ==
    IF DOMAIN map = {} THEN <<>>
    ELSE LET k == CHOOSE x \in DOMAIN map : TRUE
         IN  <<<<k, map[k]>>>> \o iter([x \in DOMAIN map \ {k} |-> map[x]])

\* normalize_attrs for the entries as attrs.iter() yields them
normalize_pairs(entries, lowercase) ==
    LET pairs == [i \in DOMAIN entries |->
                    to_lowercase(trim(entries[i][1])) \o <<"=">> \o
                    (IF lowercase
                     THEN to_lowercase(trim(entries[i][2]))
                     ELSE trim(entries[i][2]))]
    IN  join(sort(pairs), ",")

normalize_attrs(attrs, lowercase) == normalize_pairs(iter(attrs), lowercase)

\* build_compare_key over every attribute of the request, not the group's own
build_compare_key_all_attrs(attrs, list_attrs, lowercase) ==
    IF ~(Len(list_attrs) > 0)
    THEN [panicked |-> TRUE, key |-> <<>>]
    ELSE LET names == {to_lowercase(list_attrs[i]) : i \in DOMAIN list_attrs}
             sub == [n \in names \cup DOMAIN attrs |->
                        IF n \in DOMAIN attrs THEN attrs[n] ELSE <<>>]
         IN  [panicked |-> FALSE, key |-> normalize_attrs(sub, lowercase)]

\* build_compare_key asserts that the MatchGroup is not empty; the returned
\* record says whether the assertion failed (a panic) or gives the key.
build_compare_key(attrs, list_attrs, lowercase) ==
    IF ~(Len(list_attrs) > 0)
    THEN [panicked |-> TRUE, key |-> <<>>]
    ELSE LET names == {to_lowercase(list_attrs[i]) : i \in DOMAIN list_attrs}
             last(n) == CHOOSE i \in DOMAIN list_attrs :
                            /\ to_lowercase(list_attrs[i]) = n
                            /\ \A j \in DOMAIN list_attrs :
                                   to_lowercase(list_attrs[j]) = n => j <= i
             get(it) == IF it \in DOMAIN attrs THEN attrs[it] ELSE <<>>
             sub == [n \in names |-> get(list_attrs[last(n)])]
         IN  [panicked |-> FALSE, key |-> normalize_attrs(sub, lowercase)]

(***************************************************************************)
(* Values (serde_json::Value) and json_patch::merge                        *)
(***************************************************************************)

NoMap == <<>>

JNull == [t |-> "null", s |-> "", m |-> NoMap]

JString(x) == [t |-> "string", s |-> x, m |-> NoMap]

JObject(map) == [t |-> "object", s |-> "", m |-> map]

\* serde_json::json!({})
EmptyObject == JObject(NoMap)

\* json_patch::merge(doc, patch): a patch that is not an object replaces
\* the document; a null member removes the key; other members are merged
\* into the member of the same key.
RECURSIVE merge(_, _)
merge(doc, patch) ==
    IF patch.t /= "object" THEN patch
    ELSE LET base == IF doc.t = "object" THEN doc.m ELSE NoMap
             removed == {k \in DOMAIN patch.m : patch.m[k].t = "null"}
             keys == (DOMAIN base \cup DOMAIN patch.m) \ removed
         IN  JObject([k \in keys |->
                 IF k \in DOMAIN patch.m
                 THEN merge(IF k \in DOMAIN base THEN base[k] ELSE JNull,
                            patch.m[k])
                 ELSE base[k]])

(***************************************************************************)
(* Document: deserialisation                                               *)
(***************************************************************************)

match_to_string(item) == normalize_override_key(item)

\* deser_overrides with the first entry of a key kept instead of the last
deser_overrides_first_wins(items) ==
    LET keys == {match_to_string(items[i].match) : i \in DOMAIN items}
        first(k) == CHOOSE i \in DOMAIN items :
                        /\ match_to_string(items[i].match) = k
                        /\ \A j \in DOMAIN items :
                               match_to_string(items[j].match) = k => i <= j
    IN  [k \in keys |-> [omit |-> items[first(k)].omit,
                         value |-> items[first(k)].value]]

\* Vec<Matcher> collected into a HashMap: a later entry replaces an earlier
\* one that has the same key.
deser_overrides(items) ==
    LET keys == {match_to_string(items[i].match) : i \in DOMAIN items}
        last(k) == CHOOSE i \in DOMAIN items :
                       /\ match_to_string(items[i].match) = k
                       /\ \A j \in DOMAIN items :
                              match_to_string(items[j].match) = k => j <= i
    IN  [k \in keys |-> [omit |-> items[last(k)].omit,
                         value |-> items[last(k)].value]]

str2list_of_attrs(list_attrs) ==
    [n \in DOMAIN list_attrs |->
        LET pieces == split_terminator(list_attrs[n], ",")
        IN  dedup(sort([i \in DOMAIN pieces |-> to_lowercase(pieces[i])]))]

\* Document::try_from(&str) for a buffer that serde_yaml accepts
Document_try_from(buffer) ==
    [default_value |-> buffer.default_value,
     value_type |-> buffer.parameter_type,
     name |-> to_lowercase(buffer.parameter),
     collection |-> to_lowercase(buffer.puppetclass_name),
     merge_default |-> buffer.merge_default,
     merge_overrides |-> buffer.merge_overrides,
     overrides |-> deser_overrides(buffer.override_values),
     order_list |-> str2list_of_attrs(buffer.override_value_order)]

\* DocumentValueType, as serde names its variants
AllTypes == {"array", "boolean", "hash", "number", "json", "yaml", "string"}

(***************************************************************************)
(* Document: queries                                                       *)
(***************************************************************************)

\* is_hash with every value type taken for a composite one
is_hash_any(self) == self.value_type \in AllTypes

is_hash(self) == self.value_type \in {"hash", "json", "yaml"}

need_merge(self) == self.merge_overrides /\ is_hash(self)

\* the initial value of `value` with merge_default and is_hash not consulted
seed_always_default(self) == self.default_value

\* the initial value of `value` in get_value
seed(self) ==
    IF self.merge_default /\ is_hash(self)
    THEN self.default_value
    ELSE EmptyObject

\* the loop of get_value with omit honoured in the arm of need_merge = false
RECURSIVE scan_honouring_omit(_, _, _, _, _)
scan_honouring_omit(self, attrs, i, value, steps) ==
    IF i > Len(self.order_list)
    THEN [panicked |-> FALSE, value |-> value, steps |-> steps]
    ELSE LET override_key == build_compare_key(attrs, self.order_list[i], TRUE)
         IN  IF override_key.panicked
             THEN [panicked |-> TRUE, value |-> value, steps |-> steps]
             ELSE IF override_key.key \in DOMAIN self.overrides
             THEN LET matcher == self.overrides[override_key.key]
                  IN  IF need_merge(self)
                      THEN LET next == IF ~matcher.omit
                                       THEN merge(value, matcher.value)
                                       ELSE value
                           IN  scan_honouring_omit(self, attrs, i + 1, next,
                                                   Append(steps, next))
                      ELSE IF matcher.omit
                           THEN scan_honouring_omit(self, attrs, i + 1, value,
                                                    Append(steps, value))
                           ELSE [panicked |-> FALSE,
                                 value |-> matcher.value,
                                 steps |-> Append(steps, matcher.value)]
             ELSE scan_honouring_omit(self, attrs, i + 1, value,
                                      Append(steps, value))

\* The loop of get_value from MatchGroup i on, with `value` accumulated so
\* far.  steps records `value` after each completed iteration, so that
\* Len(steps) is the number of MatchGroups whose iteration completed.
RECURSIVE scan(_, _, _, _, _)
scan(self, attrs, i, value, steps) ==
    IF i > Len(self.order_list)
    THEN [panicked |-> FALSE, value |-> value, steps |-> steps]
    ELSE LET override_key == build_compare_key(attrs, self.order_list[i], TRUE)
         IN  IF override_key.panicked
             THEN [panicked |-> TRUE, value |-> value, steps |-> steps]
             ELSE IF override_key.key \in DOMAIN self.overrides
             THEN LET matcher == self.overrides[override_key.key]
                  IN  IF need_merge(self)
                      THEN LET next == IF ~matcher.omit
                                       THEN merge(value, matcher.value)
                                       ELSE value
                           IN  scan(self, attrs, i + 1, next, Append(steps, next))
                      ELSE [panicked |-> FALSE,
                            value |-> matcher.value,
                            steps |-> Append(steps, matcher.value)]
             ELSE scan(self, attrs, i + 1, value, Append(steps, value))

\* get_value without the final match on value == {}
get_value_no_sentinel(self, attrs) ==
    LET r == scan(self, attrs, 1, seed(self), <<>>)
    IN  [panicked |-> r.panicked, value |-> r.value, steps |-> r.steps]

\* Document::get_value: [panicked, value, steps]; value is the returned
\* value when the call did not panic.
get_value(self, attrs) ==
    LET r == scan(self, attrs, 1, seed(self), <<>>)
    IN  [panicked |-> r.panicked,
         value |-> IF r.value = EmptyObject THEN self.default_value ELSE r.value,
         steps |-> r.steps]

override_order(self) ==
    [i \in DOMAIN self.order_list |-> join(self.order_list[i], ",")]

total_overrides(self) == Cardinality(DOMAIN self.overrides)

(***************************************************************************)
(* Inputs: the definition files and the requests of the model              *)
(***************************************************************************)

MaxOverrides == 2

\* Sequences over pool of length at most n
SeqsUpTo(pool, n) == UNION {[1..len -> pool] : len \in 0..n}

\* Sequences over pool in which no element occurs twice
DistinctSeqs(pool) ==
    {q \in SeqsUpTo(pool, Cardinality(pool)) :
        \A i, j \in DOMAIN q : q[i] = q[j] => i = j}

ValueA ==
    JObject([k \in {"x", "y"} |->
        IF k = "x" THEN JString("A") ELSE JObject([j \in {"z"} |-> JString("A")])])

ValueB ==
    JObject([k \in {"d", "u", "x", "y"} |->
        CASE k = "d" -> JNull
          [] k = "y" -> JObject([j \in {"w"} |-> JString("B")])
          [] OTHER -> JString("B")])

DefaultObject == JObject([k \in {"d", "x"} |-> JString("D")])

MatchK1 == <<"k", "1", "=", "v", "1">>

\* MatchK1 in another spelling
MatchK1Spaced == <<" ", "K", "1", " ", "=", " ", "V", "1">>

MatchK1K2 == <<"K", "2", " ", "=", " ", "V", "2", ",", "k", "1", "=", "v", "1">>

\* the entries of the authored override_values
MatcherPool ==
    { [match |-> MatchK1, omit |-> FALSE, value |-> ValueA],
      [match |-> MatchK1, omit |-> TRUE, value |-> ValueA],
      [match |-> MatchK1Spaced, omit |-> FALSE, value |-> EmptyObject],
      [match |-> MatchK1K2, omit |-> FALSE, value |-> ValueB],
      [match |-> MatchK1K2, omit |-> TRUE, value |-> ValueB] }

\* the entries of the authored override_value_order
OrderPool ==
    { <<"k", "1">>,
      <<"k", "2", ",", "K", "1", ",", "k", "2">>,
      <<>> }

TypePool == {"hash", "string"}

DefaultPool == {EmptyObject, DefaultObject}

BufferPool ==
    [default_value : DefaultPool,
     parameter_type : TypePool,
     parameter : {<<"A">>},
     puppetclass_name : {<<"K">>},
     merge_default : BOOLEAN,
     merge_overrides : BOOLEAN,
     override_values : SeqsUpTo(MatcherPool, MaxOverrides),
     override_value_order : DistinctSeqs(OrderPool)]

\* the override_values of the documents whose resolution modes are compared
ResolveOverridesPool ==
    { <<>>,
      <<[match |-> MatchK1, omit |-> FALSE, value |-> ValueA]>>,
      <<[match |-> MatchK1, omit |-> TRUE, value |-> ValueA],
        [match |-> MatchK1K2, omit |-> FALSE, value |-> ValueB]>>,
      <<[match |-> MatchK1, omit |-> FALSE, value |-> ValueA],
        [match |-> MatchK1K2, omit |-> FALSE, value |-> ValueB]>>,
      <<[match |-> MatchK1, omit |-> FALSE, value |-> ValueA],
        [match |-> MatchK1K2, omit |-> TRUE, value |-> ValueB]>>,
      <<[match |-> MatchK1Spaced, omit |-> FALSE, value |-> EmptyObject],
        [match |-> MatchK1K2, omit |-> FALSE, value |-> ValueB]>> }

\* and their override_value_order
ResolveOrderPool ==
    { << <<"k", "1">> >>,
      << <<"k", "1">>, <<"k", "2", ",", "K", "1", ",", "k", "2">> >>,
      << <<"k", "2", ",", "K", "1", ",", "k", "2">>, <<"k", "1">> >>,
      << <<"k", "1">>, <<>> >> }

ResolvePool ==
    [default_value : DefaultPool,
     parameter_type : AllTypes,
     parameter : {<<"A">>},
     puppetclass_name : {<<"K">>},
     merge_default : BOOLEAN,
     merge_overrides : BOOLEAN,
     override_values : ResolveOverridesPool,
     override_value_order : ResolveOrderPool]

NoAttrs == <<>>

\* the attribute maps of the requests
RequestPool ==
    { NoAttrs,
      (<<"k", "1">> :> <<"v", "1">>) @@ (<<"k", "2">> :> <<"v", "2">>),
      (<<"k", "1">> :> <<" ", "V", "1">>),
      (<<"K", "1">> :> <<"v", "1">>) @@ (<<"k", "2">> :> <<"v", "2">>) }

MaxTokens == 2

\* how many times in a row normalize_override_key is applied
MaxApplications == 3

\* the tokens of the authored match strings
TokenPool ==
    { <<"a", "=", "A">>,
      <<" ", "A", " ", "=", " ", "a", " ">>,
      <<"k">>,
      <<" ", "K">>,
      <<"a", "=">>,
      <<>>,
      <<" ">> }

\* the match strings handed to normalize_override_key
MatchPool == {join(tokens, ",") : tokens \in SeqsUpTo(TokenPool, MaxTokens)}

\* the maps handed to normalize_attrs
AttrsPool ==
    RequestPool \cup
    { (<<"K", "1", " ">> :> <<" ", "V", "1">>) @@ (<<"k", "2">> :> <<"V", "2">>),
      (<<"k", "2">> :> <<>>) }

\* the orders in which HashMap::iter can yield the entries of a map
Iterations(map) ==
    LET pairs == {<<k, map[k]>> : k \in DOMAIN map}
    IN  {q \in [1..Cardinality(pairs) -> pairs] :
            \A i, j \in DOMAIN q : q[i] = q[j] => i = j}

(***************************************************************************)
(* Collection: loading and lookups                                         *)
(***************************************************************************)

starts_with(s, prefix) ==
    Len(prefix) <= Len(s) /\ SubSeq(s, 1, Len(prefix)) = prefix

ends_with(s, suffix) ==
    Len(suffix) <= Len(s) /\ SubSeq(s, Len(s) - Len(suffix) + 1, Len(s)) = suffix

\* the condition under which try_from reads a walked entry
is_definition_file(f_name) ==
    /\ ends_with(f_name, <<".", "y", "m", "l">>)
         \/ ends_with(f_name, <<".", "y", "a", "m", "l">>)
    /\ ~starts_with(f_name, <<".">>)

\* this.documents.entry(doc.collection).or_insert(Vec::new()).push(doc)
push_document(documents, d) ==
    [c \in DOMAIN documents \cup {d.collection} |->
        IF c \in DOMAIN documents
        THEN IF c = d.collection THEN Append(documents[c], d) ELSE documents[c]
        ELSE <<d>>]

\* match_total without the arm for 0: an empty store is returned as Ok
match_total_no_zero_arm(this, total, visited) ==
    [tag |-> "Ok", err |-> "", documents |-> this,
     total |-> total, visited |-> visited]

\* the match on `total` that ends try_from
match_total(this, total, visited) ==
    IF total = 0
    THEN [tag |-> "DocumentsNotFound", err |-> "", documents |-> NoMap,
          total |-> total, visited |-> visited]
    ELSE [tag |-> "Ok", err |-> "", documents |-> this,
          total |-> total, visited |-> visited]

\* The loop of try_from over the walked entries from entry i on.  An entry is
\* [f_name, error, buffer]: error is "" and buffer is <<content>> when
\* Document::try_from(path) succeeds, else error names the DocumentError.
\* visited counts the entries the loop has taken from the walk.
RECURSIVE walk(_, _, _, _, _)
walk(entries, ignore_bad, i, this, total) ==
    IF i > Len(entries)
    THEN match_total(this, total, Len(entries))
    ELSE LET entry == entries[i]
         IN  IF is_definition_file(entry.f_name)
             THEN IF entry.error = ""
                  THEN walk(entries, ignore_bad, i + 1,
                            push_document(this, Document_try_from(entry.buffer[1])),
                            total + 1)
                  ELSE IF ~ignore_bad
                       THEN [tag |-> "DocumentError", err |-> entry.error,
                             documents |-> NoMap, total |-> total, visited |-> i]
                       ELSE walk(entries, ignore_bad, i + 1, this, total)
             ELSE walk(entries, ignore_bad, i + 1, this, total)

\* try_from with the test of ignore_bad inverted, as its doc comment words it
Collection_try_from_inverted(entries, ignore_bad) ==
    walk(entries, ~ignore_bad, 1, NoMap, 0)

\* Collection::try_from((path, ignore_bad)), path given by its walk
Collection_try_from(entries, ignore_bad) ==
    walk(entries, ignore_bad, 1, NoMap, 0)

total_collections(self) == Cardinality(DOMAIN self)

RECURSIVE SumLen(_, _)
SumLen(self, names) ==
    IF names = {} THEN 0
    ELSE LET c == CHOOSE x \in names : TRUE
         IN  Len(self[c]) + SumLen(self, names \ {c})

total_documents(self) == SumLen(self, DOMAIN self)

\* Collection::get_document: the first document of the collection with the name
get_document(self, collection_name, name) ==
    IF collection_name \in DOMAIN self
       /\ \E i \in DOMAIN self[collection_name] : self[collection_name][i].name = name
    THEN LET docs == self[collection_name]
             i == CHOOSE j \in DOMAIN docs :
                      /\ docs[j].name = name
                      /\ \A h \in 1..(j - 1) : docs[h].name /= name
         IN  <<docs[i]>>
    ELSE <<>>

get_documents(self, name) ==
    IF name \in DOMAIN self THEN <<self[name]>> ELSE <<>>

\* Collection::get_values: None, or the (name, value) pairs collected into
\* a HashMap, where a later pair replaces an earlier one of the same name;
\* a panic of get_value ends the call.
get_values(self, collection_name, attrs) ==
    LET found == get_documents(self, collection_name)
    IN  IF found = <<>>
        THEN [status |-> "None", values |-> NoMap]
        ELSE LET documents == found[1]
                 outs == [i \in DOMAIN documents |-> get_value(documents[i], attrs)]
                 last(n) == CHOOSE i \in DOMAIN documents :
                                /\ documents[i].name = n
                                /\ \A j \in DOMAIN documents :
                                       documents[j].name = n => j <= i
             IN  IF \E i \in DOMAIN outs : outs[i].panicked
                 THEN [status |-> "panic", values |-> NoMap]
                 ELSE [status |-> "Some",
                       values |-> [n \in {documents[i].name : i \in DOMAIN documents}
                                      |-> outs[last(n)].value]]

(***************************************************************************)
(* Inputs: the walked directory and the queries                            *)
(***************************************************************************)

MaxFiles == 3

BufferA ==
    [default_value |-> DefaultObject,
     parameter_type |-> "hash",
     parameter |-> <<"A">>,
     puppetclass_name |-> <<"K">>,
     merge_default |-> TRUE,
     merge_overrides |-> TRUE,
     override_values |-> <<[match |-> MatchK1, omit |-> FALSE, value |-> ValueA]>>,
     override_value_order |-> << <<"k", "1">> >>]

\* the same collection and, once lowercased, the same name as BufferA
BufferB ==
    [default_value |-> JString("D"),
     parameter_type |-> "string",
     parameter |-> <<"a">>,
     puppetclass_name |-> <<"k">>,
     merge_default |-> FALSE,
     merge_overrides |-> FALSE,
     override_values |-> <<[match |-> MatchK1, omit |-> FALSE, value |-> JString("B")]>>,
     override_value_order |-> << <<"k", "1">> >>]

\* another collection; its override_value_order holds an empty string
BufferC ==
    [default_value |-> JString("C"),
     parameter_type |-> "string",
     parameter |-> <<"v">>,
     puppetclass_name |-> <<"v">>,
     merge_default |-> FALSE,
     merge_overrides |-> FALSE,
     override_values |-> <<>>,
     override_value_order |-> << <<>> >>]

NameYml == <<"a", ".", "y", "m", "l">>

NameYaml == <<"k", ".", "y", "a", "m", "l">>

NameHidden == <<".", "a", ".", "y", "m", "l">>

NameOther == <<"a", ".", "y", "m", "l", ".", "v">>

\* the entries a walk can yield
EntryPool ==
    { [f_name |-> NameYml, error |-> "", buffer |-> <<BufferA>>],
      [f_name |-> NameYaml, error |-> "", buffer |-> <<BufferB>>],
      [f_name |-> NameYml, error |-> "", buffer |-> <<BufferC>>],
      [f_name |-> NameYml, error |-> "ParseError", buffer |-> <<>>],
      [f_name |-> NameYaml, error |-> "StdIoError", buffer |-> <<>>],
      [f_name |-> NameHidden, error |-> "", buffer |-> <<BufferC>>],
      [f_name |-> NameOther, error |-> "ParseError", buffer |-> <<>>] }

\* the collection names and document names of the queries
CollectionNamePool == {<<"k">>, <<"v">>, <<"K">>}

DocumentNamePool == {<<"a">>, <<"v">>}

QueryPool ==
    { NoAttrs,
      (<<"k", "1">> :> <<"v", "1">>) @@ (<<"k", "2">> :> <<"v", "2">>) }

MaxHandlers == 2

\* the handler tasks that can be in flight at once
Handlers == 1..MaxHandlers

\* the requests routed to the handlers
TaskRequestPool ==
    { [handler |-> "get_collections_stat",
       collection_name |-> <<>>, document_name |-> <<>>, attrs |-> NoAttrs],
      [handler |-> "get_collection_values",
       collection_name |-> <<"k">>, document_name |-> <<>>,
       attrs |-> (<<"k", "1">> :> <<"v", "1">>) @@ (<<"k", "2">> :> <<"v", "2">>)],
      [handler |-> "get_document_value",
       collection_name |-> <<"k">>, document_name |-> <<"a">>,
       attrs |-> (<<"k", "1">> :> <<"v", "1">>) @@ (<<"k", "2">> :> <<"v", "2">>)],
      [handler |-> "get_document_value",
       collection_name |-> <<"v">>, document_name |-> <<"v">>, attrs |-> NoAttrs] }

\* the walks of the collection directory behind the served stores
SharedWalkPool ==
    { <<>>,
      <<[f_name |-> NameYml, error |-> "ParseError", buffer |-> <<>>]>>,
      <<[f_name |-> NameYml, error |-> "", buffer |-> <<BufferC>>]>>,
      <<[f_name |-> NameYml, error |-> "", buffer |-> <<BufferA>>],
        [f_name |-> NameYaml, error |-> "", buffer |-> <<BufferB>>]>>,
      <<[f_name |-> NameYml, error |-> "", buffer |-> <<BufferA>>],
        [f_name |-> NameYaml, error |-> "StdIoError", buffer |-> <<>>],
        [f_name |-> NameYml, error |-> "", buffer |-> <<BufferC>>]>> }

\* what the handler of query q answers from the Collection self
respond(self, q) ==
    CASE q.handler = "get_collections_stat" ->
            [kind |-> "CollectionsStat", values |-> NoMap, value |-> JNull,
             totals |-> <<total_collections(self), total_documents(self)>>]
      [] q.handler = "get_collection_values" ->
            LET r == get_values(self, q.collection_name, q.attrs)
            IN  [kind |-> CASE r.status = "Some" -> "CollectionValues"
                            [] r.status = "None" -> "CollectionNotFound"
                            [] OTHER -> "panic",
                 values |-> r.values, value |-> JNull, totals |-> <<>>]
      [] OTHER ->
            LET found == get_document(self, q.collection_name, q.document_name)
                r == get_value(found[1], q.attrs)
            IN  [kind |-> IF found = <<>> THEN "DocumentNotFound"
                          ELSE IF r.panicked THEN "panic"
                          ELSE "DocumentValue",
                 values |-> NoMap,
                 value |-> IF found = <<>> \/ r.panicked THEN JNull ELSE r.value,
                 totals |-> <<>>]

(***************************************************************************)
(* State                                                                   *)
(***************************************************************************)

VARIABLES
    buffer,      \* the content of a definition file
    doc,         \* <<>> until the content is parsed, then <<the Document>>
    request,     \* <<>>, or <<attrs>> of the get_value call
    result,      \* <<>>, or <<outcome>> of the get_value call
    entries,     \* the entries the walk of collection_dir yields
    ignore_bad,  \* args.ignore_bad_documents
    loaded,      \* <<>>, or <<outcome>> of Collection::try_from
    server,      \* "loading", "loaded", "serving" or "failed"
    query,       \* <<>>, or <<the last query>>
    response,    \* <<>>, or <<the response to the last query>>
    keys,        \* a match string, then the results of normalising it
    hashed,      \* <<>>, or <<a map, its iteration and its normalised key>>
    guard,       \* the RwLock of the SharedCollection: [readers, writer]
    tasks        \* the handler tasks in flight: [pc, query, seen, response]

docvars == <<buffer, doc, request, result>>

servervars == <<entries, ignore_bad, loaded, server, query, response>>

keyvars == <<keys, hashed>>

sharedvars == <<guard, tasks>>

vars == <<buffer, doc, request, result,
          entries, ignore_bad, loaded, server, query, response,
          keys, hashed, guard, tasks>>

\* the RwLock with no guard handed out
Unlocked == [readers |-> {}, writer |-> FALSE]

\* a handler task that has no request
IdleTask == [pc |-> "idle", query |-> <<>>, seen |-> <<>>, response |-> <<>>]

NoTasks == [t \in Handlers |-> IdleTask]

(***************************************************************************)
(* Document resolution: one definition file parsed, then resolved          *)
(***************************************************************************)

InitDoc ==
    /\ buffer \in BufferPool
    /\ doc = <<>>
    /\ request = <<>>
    /\ result = <<>>
    /\ entries = <<>>
    /\ ignore_bad = FALSE
    /\ loaded = <<>>
    /\ server = "loading"
    /\ query = <<>>
    /\ response = <<>>
    /\ keys = <<>>
    /\ hashed = <<>>
    /\ guard = Unlocked
    /\ tasks = NoTasks

ParseDocument ==
    /\ doc = <<>>
    /\ doc' = <<Document_try_from(buffer)>>
    /\ UNCHANGED <<buffer, request, result>>
    /\ UNCHANGED servervars
    /\ UNCHANGED sharedvars
    /\ UNCHANGED keyvars

GetValue ==
    /\ doc /= <<>>
    /\ result = <<>>
    /\ \E attrs \in RequestPool :
        /\ request' = <<attrs>>
        /\ result' = <<get_value(doc[1], attrs)>>
    /\ UNCHANGED <<buffer, doc>>
    /\ UNCHANGED servervars
    /\ UNCHANGED sharedvars
    /\ UNCHANGED keyvars

NextDoc == ParseDocument \/ GetValue

SpecDoc == InitDoc /\ [][NextDoc]_vars

(***************************************************************************)
(* Resolution modes: documents of every value type and merge flags         *)
(***************************************************************************)

InitResolve ==
    /\ buffer \in ResolvePool
    /\ doc = <<>>
    /\ request = <<>>
    /\ result = <<>>
    /\ entries = <<>>
    /\ ignore_bad = FALSE
    /\ loaded = <<>>
    /\ server = "loading"
    /\ query = <<>>
    /\ response = <<>>
    /\ keys = <<>>
    /\ hashed = <<>>
    /\ guard = Unlocked
    /\ tasks = NoTasks

SpecResolve == InitResolve /\ [][NextDoc]_vars

(***************************************************************************)
(* Key normalisation: a match string normalised, and normalised again      *)
(***************************************************************************)

InitKey ==
    /\ buffer = <<>>
    /\ doc = <<>>
    /\ request = <<>>
    /\ result = <<>>
    /\ entries = <<>>
    /\ ignore_bad = FALSE
    /\ loaded = <<>>
    /\ server = "loading"
    /\ query = <<>>
    /\ response = <<>>
    /\ keys \in {<<value>> : value \in MatchPool}
    /\ hashed = <<>>
    /\ guard = Unlocked
    /\ tasks = NoTasks

\* normalize_override_key applied to the string obtained last
NormalizeOverrideKey ==
    /\ hashed = <<>>
    /\ Len(keys) < MaxApplications
    /\ keys' = Append(keys, normalize_override_key(keys[Len(keys)]))
    /\ UNCHANGED hashed
    /\ UNCHANGED docvars
    /\ UNCHANGED servervars
    /\ UNCHANGED sharedvars

\* normalize_attrs applied to a map that attrs.iter() yields in some order
NormalizeAttrs ==
    /\ hashed = <<>>
    /\ Len(keys) = 1
    /\ \E attrs \in AttrsPool, lowercase \in BOOLEAN :
        \E order \in Iterations(attrs) :
            hashed' = <<[attrs |-> attrs,
                         order |-> order,
                         lowercase |-> lowercase,
                         key |-> normalize_pairs(order, lowercase)]>>
    /\ UNCHANGED keys
    /\ UNCHANGED docvars
    /\ UNCHANGED servervars
    /\ UNCHANGED sharedvars

NextKey == NormalizeOverrideKey \/ NormalizeAttrs

SpecKey == InitKey /\ [][NextKey]_vars

(***************************************************************************)
(* The server: load, then serve queries                                    *)
(***************************************************************************)

Init ==
    /\ buffer = <<>>
    /\ doc = <<>>
    /\ request = <<>>
    /\ result = <<>>
    /\ entries \in SeqsUpTo(EntryPool, MaxFiles)
    /\ ignore_bad \in BOOLEAN
    /\ loaded = <<>>
    /\ server = "loading"
    /\ query = <<>>
    /\ response = <<>>
    /\ keys = <<>>
    /\ hashed = <<>>
    /\ guard = Unlocked
    /\ tasks = NoTasks

\* run_server without the `?` after Collection::try_from
LoadCollection_unchecked ==
    /\ server = "loading"
    /\ loaded' = <<Collection_try_from(entries, ignore_bad)>>
    /\ server' = "loaded"
    /\ UNCHANGED <<entries, ignore_bad, query, response>>
    /\ UNCHANGED docvars
    /\ UNCHANGED keyvars
    /\ UNCHANGED sharedvars

\* run_server: Collection::try_from(...).map_err(...)?
LoadCollection ==
    /\ server = "loading"
    /\ LET r == Collection_try_from(entries, ignore_bad)
       IN  /\ loaded' = <<r>>
           /\ server' = IF r.tag = "Ok" THEN "loaded" ELSE "failed"
    /\ UNCHANGED <<entries, ignore_bad, query, response>>
    /\ UNCHANGED docvars
    /\ UNCHANGED keyvars
    /\ UNCHANGED sharedvars

\* run_server: SharedCollection::from, Router, Server::bind(...).serve(...)
Serve ==
    /\ server = "loaded"
    /\ server' = "serving"
    /\ UNCHANGED <<entries, ignore_bad, loaded, query, response>>
    /\ UNCHANGED docvars
    /\ UNCHANGED keyvars
    /\ UNCHANGED sharedvars

\* the Collection behind the SharedCollection
collection == loaded[1].documents

get_collection_values ==
    /\ server = "serving"
    /\ \E collection_name \in CollectionNamePool, attrs \in QueryPool :
        LET r == get_values(collection, collection_name, attrs)
        IN  /\ query' = <<[handler |-> "get_collection_values",
                           collection_name |-> collection_name,
                           document_name |-> <<>>,
                           attrs |-> attrs]>>
            /\ response' = <<[kind |-> CASE r.status = "Some" -> "CollectionValues"
                                         [] r.status = "None" -> "CollectionNotFound"
                                         [] OTHER -> "panic",
                              values |-> r.values,
                              value |-> JNull]>>
    /\ UNCHANGED <<entries, ignore_bad, loaded, server>>
    /\ UNCHANGED docvars
    /\ UNCHANGED keyvars
    /\ UNCHANGED sharedvars

get_document_value ==
    /\ server = "serving"
    /\ \E collection_name \in CollectionNamePool,
          document_name \in DocumentNamePool, attrs \in QueryPool :
        LET found == get_document(collection, collection_name, document_name)
            r == get_value(found[1], attrs)
        IN  /\ query' = <<[handler |-> "get_document_value",
                           collection_name |-> collection_name,
                           document_name |-> document_name,
                           attrs |-> attrs]>>
            /\ response' = <<[kind |-> IF found = <<>> THEN "DocumentNotFound"
                                       ELSE IF r.panicked THEN "panic"
                                       ELSE "DocumentValue",
                              values |-> NoMap,
                              value |-> IF found = <<>> \/ r.panicked
                                        THEN JNull ELSE r.value]>>
    /\ UNCHANGED <<entries, ignore_bad, loaded, server>>
    /\ UNCHANGED docvars
    /\ UNCHANGED keyvars
    /\ UNCHANGED sharedvars

Next == LoadCollection \/ Serve \/ get_collection_values \/ get_document_value

Spec == Init /\ [][Next]_vars

(***************************************************************************)
(* The shared store: handler tasks running concurrently after the load     *)
(***************************************************************************)

InitShared ==
    /\ buffer = <<>>
    /\ doc = <<>>
    /\ request = <<>>
    /\ result = <<>>
    /\ entries \in SharedWalkPool
    /\ ignore_bad \in BOOLEAN
    /\ loaded = <<>>
    /\ server = "loading"
    /\ query = <<>>
    /\ response = <<>>
    /\ keys = <<>>
    /\ hashed = <<>>
    /\ guard = Unlocked
    /\ tasks = NoTasks

\* the router hands a request to a handler task
Dispatch(t) ==
    /\ server = "serving"
    /\ tasks[t].pc = "idle"
    /\ \E q \in TaskRequestPool :
        tasks' = [tasks EXCEPT ![t] = [pc |-> "waiting", query |-> <<q>>,
                                      seen |-> <<>>, response |-> <<>>]]
    /\ UNCHANGED guard
    /\ UNCHANGED docvars
    /\ UNCHANGED servervars
    /\ UNCHANGED keyvars

\* collection.0.read().await: a read guard, granted while no writer holds
\* the lock
read(t) ==
    /\ tasks[t].pc = "waiting"
    /\ ~guard.writer
    /\ guard' = [guard EXCEPT !.readers = @ \cup {t}]
    /\ tasks' = [tasks EXCEPT ![t].pc = "reading"]
    /\ UNCHANGED docvars
    /\ UNCHANGED servervars
    /\ UNCHANGED keyvars

\* a handler that empties the store while it answers
Respond_clearing(t) ==
    /\ tasks[t].pc = "reading"
    /\ tasks' = [tasks EXCEPT ![t] = [pc |-> "done", query |-> @.query,
                                      seen |-> <<collection>>,
                                      response |-> <<respond(collection, @.query[1])>>]]
    /\ guard' = [guard EXCEPT !.readers = @ \ {t}]
    /\ loaded' = <<[loaded[1] EXCEPT !.documents = NoMap]>>
    /\ UNCHANGED <<entries, ignore_bad, server, query, response>>
    /\ UNCHANGED docvars
    /\ UNCHANGED keyvars

\* the rest of the handler: the answer is computed from the Collection behind
\* the read guard, and the guard is dropped at the end of the statement
Respond(t) ==
    /\ tasks[t].pc = "reading"
    /\ tasks' = [tasks EXCEPT ![t] = [pc |-> "done", query |-> @.query,
                                      seen |-> <<collection>>,
                                      response |-> <<respond(collection, @.query[1])>>]]
    /\ guard' = [guard EXCEPT !.readers = @ \ {t}]
    /\ UNCHANGED docvars
    /\ UNCHANGED servervars
    /\ UNCHANGED keyvars

NextShared ==
    \/ LoadCollection
    \/ Serve
    \/ \E t \in Handlers : Dispatch(t)
    \/ \E t \in Handlers : read(t)
    \/ \E t \in Handlers : Respond(t)

SpecShared == InitShared /\ [][NextShared]_vars

(***************************************************************************)
(* Properties of the key normaliser (checked under SpecKey)                *)
(***************************************************************************)

\* C11: normalising a normalised match string gives the same string, for
\* every match string, those with empty tokens, bare tokens and empty values
\* included.
C11_NormalizeIdempotent == Len(keys) >= 3 => keys[3] = keys[2]

\* a token as the normaliser is to render it: name and value trimmed and
\* lowercased around the first '=', a bare token trimmed and lowercased
Fold(token) ==
    LET kv == split_once(token, "=")
    IN  IF kv.found
        THEN trim(to_lowercase(kv.key)) \o <<"=">> \o trim(to_lowercase(kv.value))
        ELSE trim(to_lowercase(token))

\* the tokens listed in a match string, folded
FoldedTokens(value) ==
    LET listed == split_terminator(value, ",")
    IN  [i \in DOMAIN listed |-> Fold(listed[i])]

\* the pairs of a map, rendered as "name=value"
RenderedPairs(attrs, lowercase) ==
    LET order == CHOOSE q \in Iterations(attrs) : TRUE
    IN  [i \in DOMAIN order |->
            trim(to_lowercase(order[i][1])) \o <<"=">> \o
            (IF lowercase THEN trim(to_lowercase(order[i][2]))
             ELSE trim(order[i][2]))]

\* how many times each element occurs in a sequence
BagOf(seq) ==
    [x \in {seq[i] : i \in DOMAIN seq} |->
        Cardinality({i \in DOMAIN seq : seq[i] = x})]

Sorted(seq) ==
    \A i \in 1..(Len(seq) - 1) : seq[i] = seq[i + 1] \/ StrLess(seq[i], seq[i + 1])

\* key is the tokens, sorted by their full text and joined with ','
Canonical(key, tokens) ==
    IF tokens = <<>> THEN key = <<>>
    ELSE Sorted(split(key, ",")) /\ BagOf(split(key, ",")) = BagOf(tokens)

Resolved == result /= <<>>

\* the compare key of MatchGroup i of the document for the request
Probe(i) == build_compare_key(request[1], doc[1].order_list[i], TRUE)

\* MatchGroup i has a compare key and the override table holds it
Present(i) == ~Probe(i).panicked /\ Probe(i).key \in DOMAIN doc[1].overrides

Matched == {i \in DOMAIN doc[1].order_list : Present(i)}

Earliest == CHOOSE i \in Matched : \A j \in Matched : i <= j

MatchedEntry(i) == doc[1].overrides[Probe(i).key]

\* `value` of get_value when iteration i of its loop starts
Before(i) == IF i = 1 THEN seed(doc[1]) ELSE result[1].steps[i - 1]

\* C1: in non-merge mode, when some MatchGroup's compare key is in the
\* override table, get_value returns exactly the value of the entry of the
\* earliest such MatchGroup, whatever that value is.
C1_EarliestMatchWins ==
    (Resolved /\ ~need_merge(doc[1]) /\ Matched /= {}) =>
        /\ ~result[1].panicked
        /\ result[1].value = MatchedEntry(Earliest).value

\* the matched MatchGroups whose entry is an object with omit = false
Merged ==
    {i \in Matched : ~MatchedEntry(i).omit /\ MatchedEntry(i).value.t = "object"}

\* the last matched MatchGroup whose entry's value has the key k
LastWith(k) ==
    CHOOSE i \in Merged :
        /\ k \in DOMAIN MatchedEntry(i).value.m
        /\ \A j \in Merged : k \in DOMAIN MatchedEntry(j).value.m => j <= i

\* C2: in merge mode, when two or more MatchGroups match entries that are
\* objects with omit = false, the result has every key of every such entry,
\* and a key that several of them have carries the value of the latest one.
C2_MergeUnionLaterWins ==
    (Resolved /\ need_merge(doc[1]) /\ Cardinality(Merged) >= 2) =>
        /\ ~result[1].panicked
        /\ result[1].value.t = "object"
        /\ \A i \in Merged : \A k \in DOMAIN MatchedEntry(i).value.m :
              /\ k \in DOMAIN result[1].value.m
              /\ result[1].value.m[k] = MatchedEntry(LastWith(k)).value.m[k]

\* C3: when no MatchGroup's compare key is in the override table, get_value
\* returns exactly default_value, for every value type and merge flags.
C3_NoMatchReturnsDefault ==
    (Resolved /\ Matched = {}) =>
        /\ ~result[1].panicked
        /\ result[1].value = doc[1].default_value

\* C4: get_value is total: for every document the loader produces and every
\* request it returns a value and does not panic.
C4_GetValueTotal == Resolved => ~result[1].panicked

\* the (name, value) pairs of a match string, as authored
AuthoredPairs(match) ==
    LET pieces == split_terminator(match, ",")
    IN  {<<split_once(pieces[i], "=").key, split_once(pieces[i], "=").value>> :
            i \in DOMAIN pieces}

\* the request that supplies exactly the authored pairs of a match string
AuthoredRequest(match) ==
    LET pairs == AuthoredPairs(match)
    IN  [n \in {pr[1] : pr \in pairs} |->
            (CHOOSE pr \in pairs : pr[1] = n)[2]]

\* the attribute names of a match string and of an order entry
MatchNames(match) == {to_lowercase(trim(pr[1])) : pr \in AuthoredPairs(match)}

OrderNames(entry) ==
    LET pieces == split_terminator(entry, ",")
    IN  {to_lowercase(trim(pieces[i])) : i \in DOMAIN pieces}

\* C5: for every authored override and every MatchGroup of the document over
\* the same attribute names, the key stored for the override equals the
\* compare key of the request that supplies exactly the authored pairs.
C5_StoreAndQueryKeysAgree ==
    doc /= <<>> =>
        \A i \in DOMAIN buffer.override_values :
            \A j \in DOMAIN buffer.override_value_order :
                LET match == buffer.override_values[i].match
                    ck == build_compare_key(AuthoredRequest(match),
                                            doc[1].order_list[j], TRUE)
                IN  MatchNames(match) = OrderNames(buffer.override_value_order[j])
                    => /\ ~ck.panicked
                       /\ ck.key = match_to_string(match)
                       /\ ck.key \in DOMAIN doc[1].overrides

\* a request with its names and values trimmed and lowercased
FoldedAttrs(attrs) ==
    {<<to_lowercase(trim(n)), to_lowercase(trim(attrs[n]))>> : n \in DOMAIN attrs}

\* C6: two requests whose names and values are equal after trimming and
\* lowercasing make get_value return the same value.
C6_CaseInsensitiveRequests ==
    Resolved =>
        \A other \in RequestPool :
            FoldedAttrs(other) = FoldedAttrs(request[1]) =>
                /\ get_value(doc[1], other).panicked = result[1].panicked
                /\ get_value(doc[1], other).value = result[1].value

\* C7: in merge mode an entry with omit = true that the scan matches leaves
\* the accumulated value unchanged and does not stop the scan: every later
\* MatchGroup is probed and its entry with omit = false is merged.
C7_OmitSkipsAndContinues ==
    (Resolved /\ need_merge(doc[1])) =>
        \A i \in Matched :
            (MatchedEntry(i).omit /\ Len(result[1].steps) >= i) =>
                /\ result[1].steps[i] = Before(i)
                /\ ~result[1].panicked
                /\ Len(result[1].steps) = Len(doc[1].order_list)
                /\ \A j \in Matched :
                      (j > i /\ ~MatchedEntry(j).omit) =>
                          result[1].steps[j] = merge(Before(j), MatchedEntry(j).value)

\* the document with omit = false in every entry of its override table
WithoutOmit(self) ==
    [self EXCEPT !.overrides =
        [k \in DOMAIN @ |-> [omit |-> FALSE, value |-> @[k].value]]]

\* C17: in non-merge mode the omit flag of a matched entry has no effect:
\* get_value gives what it gives for the same document with omit = false in
\* every entry, and the entry of the earliest matching MatchGroup becomes the
\* value and ends the scan also when its omit flag is true.
C17_OmitIgnoredWithoutMerge ==
    (Resolved /\ ~need_merge(doc[1])) =>
        /\ get_value(WithoutOmit(doc[1]), request[1]) = result[1]
        /\ (Matched /= {} /\ Len(result[1].steps) >= Earliest) =>
              /\ ~result[1].panicked
              /\ Len(result[1].steps) = Earliest
              /\ result[1].steps[Earliest] = MatchedEntry(Earliest).value

C17_Witness ==
    /\ Resolved
    /\ ~need_merge(doc[1])
    /\ Len(doc[1].order_list) = 2
    /\ Matched = {1, 2}
    /\ MatchedEntry(1).omit
    /\ ~result[1].panicked
    /\ Len(result[1].steps) = 1
    /\ result[1].value = ValueA

\* the value types that are not composite
AtomicTypes == AllTypes \ {"hash", "json", "yaml"}

\* C18: for a document of type array, boolean, number or string, whatever
\* merge_default and merge_overrides are, get_value gives what it gives with
\* both flags false: the scan starts from the empty object, not from
\* default_value, the entry of the earliest matching MatchGroup replaces the
\* value and ends the scan, and nothing is merged.
C18_AtomicTypesNeverMerge ==
    (Resolved /\ doc[1].value_type \in AtomicTypes) =>
        /\ result[1] = get_value([doc[1] EXCEPT !.merge_default = FALSE,
                                                !.merge_overrides = FALSE],
                                 request[1])
        /\ seed(doc[1]) = EmptyObject
        /\ ~need_merge(doc[1])
        /\ ~result[1].panicked =>
              result[1].value \in
                  {doc[1].default_value} \cup
                  {doc[1].overrides[k].value : k \in DOMAIN doc[1].overrides}
        /\ (Matched /= {} /\ Len(result[1].steps) >= Earliest) =>
              /\ ~result[1].panicked
              /\ Len(result[1].steps) = Earliest
              /\ result[1].steps[Earliest] = MatchedEntry(Earliest).value

C18_Witness ==
    /\ Resolved
    /\ doc[1].value_type = "number"
    /\ doc[1].merge_default
    /\ doc[1].merge_overrides
    /\ doc[1].default_value = DefaultObject
    /\ Matched = {1, 2}
    /\ ~result[1].panicked
    /\ result[1].value = ValueB

\* the attribute names of all MatchGroups of a document
GroupNames(self) ==
    UNION {{self.order_list[i][n] : n \in DOMAIN self.order_list[i]} :
              i \in DOMAIN self.order_list}

\* the value a request gives for a name: the empty string when it has none
ValueOf(attrs, name) == IF name \in DOMAIN attrs THEN attrs[name] ELSE <<>>

\* the requests that are compared with the resolved one
ProbePool ==
    RequestPool \cup
    { (<<"k", "1">> :> <<"v", "1">>),
      (<<"k", "1">> :> <<"v", "1">>) @@ (<<"k", "2">> :> <<>>),
      (<<"k", "1">> :> <<"v", "1">>) @@ (<<"k", "2">> :> <<"v", "2">>)
          @@ (<<"a">> :> <<"v">>) }

\* C19: the compare key of a MatchGroup is the group's own names, each with
\* the request's value for it or with an empty value when the request has
\* none, sorted and joined; request attributes that no MatchGroup names do
\* not count: get_value gives the same for two requests that agree on every
\* name of the document's MatchGroups.
C19_KeyOverGroupNamesOnly ==
    Resolved =>
        /\ \A i \in DOMAIN doc[1].order_list :
              LET group == doc[1].order_list[i]
              IN  group /= <<>> =>
                      /\ ~Probe(i).panicked
                      /\ Canonical(Probe(i).key,
                             [n \in DOMAIN group |->
                                 trim(to_lowercase(group[n])) \o <<"=">> \o
                                 trim(to_lowercase(ValueOf(request[1], group[n])))])
        /\ \A other \in ProbePool :
              (\A name \in GroupNames(doc[1]) :
                   ValueOf(other, name) = ValueOf(request[1], name))
              => /\ \A i \in DOMAIN doc[1].order_list :
                       build_compare_key(other, doc[1].order_list[i], TRUE) = Probe(i)
                 /\ get_value(doc[1], other) = result[1]

C19_Witness ==
    /\ Resolved
    /\ doc[1].order_list = << <<<<"k", "1">>>> >>
    /\ request[1] = (<<"k", "1">> :> <<"v", "1">>) @@ (<<"k", "2">> :> <<"v", "2">>)
    /\ Probe(1).key = MatchK1
    /\ Matched = {1}
    /\ result[1].value = ValueA

\* the matched MatchGroups whose entry has omit = false
Contributing == {i \in Matched : ~MatchedEntry(i).omit}

\* the top-level keys that the entries of the contributing MatchGroups have
ContributedKeys == UNION {DOMAIN MatchedEntry(i).value.m : i \in Contributing}

\* `value` of get_value when its loop has ended
Accumulated ==
    IF result[1].steps = <<>> THEN seed(doc[1])
    ELSE result[1].steps[Len(result[1].steps)]

C21_EmptyObjectIsSentinel ==
    (Resolved /\ ~result[1].panicked) =>
        /\ Accumulated = EmptyObject => result[1].value = doc[1].default_value
        /\ Accumulated /= EmptyObject => result[1].value = Accumulated
        /\ result[1].value = EmptyObject => doc[1].default_value = EmptyObject

C21_Witness ==
    /\ Resolved
    /\ ~need_merge(doc[1])
    /\ Matched = {1}
    /\ MatchedEntry(1).value = EmptyObject
    /\ Accumulated = EmptyObject
    /\ doc[1].default_value = DefaultObject
    /\ ~result[1].panicked
    /\ result[1].value = DefaultObject

\* C13: when several authored override entries normalise to the same key,
\* the override table holds one entry for that key, with the omit flag and
\* the value of the entry authored last, and the table is built all the same.
C13_LastWriteWins ==
    doc /= <<>> =>
        LET items == buffer.override_values
            key(i) == normalize_override_key(items[i].match)
        IN  /\ DOMAIN doc[1].overrides = {key(i) : i \in DOMAIN items}
            /\ total_overrides(doc[1]) = Cardinality({key(i) : i \in DOMAIN items})
            /\ \A i \in DOMAIN items :
                  (\A j \in DOMAIN items : j > i => key(j) /= key(i)) =>
                      /\ doc[1].overrides[key(i)].omit = items[i].omit
                      /\ doc[1].overrides[key(i)].value = items[i].value

C13_Witness ==
    /\ doc /= <<>>
    /\ Len(buffer.override_values) = 2
    /\ buffer.override_values[1] = [match |-> MatchK1, omit |-> TRUE, value |-> ValueA]
    /\ buffer.override_values[2].match = MatchK1Spaced
    /\ total_overrides(doc[1]) = 1
    /\ doc[1].overrides[MatchK1] = [omit |-> FALSE, value |-> EmptyObject]

\* the attribute names authored in an entry of override_value_order
AuthoredNames(entry) ==
    LET listed == split_terminator(entry, ",")
    IN  {to_lowercase(listed[i]) : i \in DOMAIN listed}

\* C14: override_order returns one string per authored override_value_order
\* entry, in authored order, and splitting the string on ',' gives the
\* attribute names authored in that entry, lowercased, without duplicates
\* and sorted.
C14_OverrideOrderRoundTrip ==
    doc /= <<>> =>
        LET authored == buffer.override_value_order
            returned == override_order(doc[1])
        IN  /\ Len(returned) = Len(authored)
            /\ \A i \in DOMAIN authored :
                  LET back == split(returned[i], ",")
                  IN  /\ {back[n] : n \in DOMAIN back} = AuthoredNames(authored[i])
                      /\ \A n \in 1..(Len(back) - 1) : StrLess(back[n], back[n + 1])

(***************************************************************************)
(* Properties of the loader and the store (checked under Spec)             *)
(***************************************************************************)

Loaded == loaded /= <<>>

\* a walked entry that try_from reads and Document::try_from accepts
GoodFile(e) == is_definition_file(e.f_name) /\ e.error = ""

\* a walked entry that try_from reads and Document::try_from rejects
BadFile(e) == is_definition_file(e.f_name) /\ e.error /= ""

SomeGood == \E i \in DOMAIN entries : GoodFile(entries[i])

SomeBad == \E i \in DOMAIN entries : BadFile(entries[i])

FirstBad ==
    CHOOSE i \in DOMAIN entries :
        BadFile(entries[i]) /\ \A j \in 1..(i - 1) : ~BadFile(entries[j])

\* the documents of the good files, in walk order, by collection
ValidDocuments ==
    LET good == SelectSeq(entries, GoodFile)
        docs == [i \in DOMAIN good |-> Document_try_from(good[i].buffer[1])]
    IN  [c \in {docs[i].collection : i \in DOMAIN docs} |->
            LET InC(d) == d.collection = c IN SelectSeq(docs, InC)]

C10_ValuesForEveryDocument ==
    (response /= <<>> /\ query[1].handler = "get_collection_values") =>
        LET c == query[1].collection_name
        IN  IF c \notin DOMAIN collection
            THEN response[1].kind = "CollectionNotFound"
            ELSE /\ response[1].kind = "CollectionValues"
                 /\ \A i \in DOMAIN collection[c] :
                       LET d == collection[c][i]
                       IN  /\ d.name \in DOMAIN response[1].values
                           /\ response[1].values[d.name]
                                = get_value(d, query[1].attrs).value

\* C15: no query handler runs before Collection::try_from has returned Ok,
\* and when the load returns an error the server is never bound and no query
\* is ever served.
C15_LoadPrecedesServing ==
    /\ []((query /= <<>> \/ response /= <<>> \/ server = "serving")
            => (Loaded /\ loaded[1].tag = "Ok"))
    /\ []((Loaded /\ loaded[1].tag /= "Ok")
            => (server = "failed" /\ query = <<>> /\ response = <<>>))
    /\ [][server = "failed" => server' = "failed"]_vars
    /\ [][(query' /= query \/ response' /= response)
            => (server = "serving" /\ Loaded /\ loaded[1].tag = "Ok")]_vars

C15_Witness ==
    /\ Loaded
    /\ loaded[1].tag = "Ok"
    /\ server = "serving"
    /\ response /= <<>>
    /\ response[1].kind = "DocumentValue"

(***************************************************************************)
(* Properties of the shared store (checked under SpecShared)               *)
(***************************************************************************)

\* C16: under every interleaving of the handler tasks, a handler holds only
\* the read guard of the SharedCollection, no handler changes the store, and
\* every query is answered from the complete store that the load built.
C16_StoreImmutableUnderReads ==
    /\ [](~guard.writer)
    /\ [](\A t \in Handlers :
            /\ t \in guard.readers <=> tasks[t].pc = "reading"
            /\ tasks[t].pc /= "idle" => (Loaded /\ loaded[1].tag = "Ok")
            /\ tasks[t].pc = "done" =>
                  /\ tasks[t].seen = <<ValidDocuments>>
                  /\ tasks[t].response = <<respond(ValidDocuments, tasks[t].query[1])>>)
    /\ [][Loaded => loaded' = loaded]_vars

C16_Witness ==
    /\ guard.readers = {1}
    /\ tasks[1].pc = "reading"
    /\ tasks[2].pc = "done"
    /\ tasks[2].query[1].handler = "get_collection_values"
    /\ tasks[2].response[1].kind = "CollectionValues"
    /\ total_documents(collection) = 2

====
